---- MODULE Spec2Model ----
(***************************************************************************)
(* Worker supervision of shelter: the two Worker wrappers                  *)
(* (shelter.commands.runserver.ProcessWrapper, shelter.core.processes.     *)
(* Worker), the two supervisor loops (RunServer.start_processes,           *)
(* shelter.core.processes.start_workers), the startup sequence of          *)
(* BaseCommand.start_service_processes, the worker side                    *)
(* (BaseProcess.run, TornadoProcess.run), the runserver command            *)
(* (RunServer.command under shelter.main.main) and the construction of     *)
(* its collection (RunServer.initialize).                                  *)
(***************************************************************************)
EXTENDS Integers, Sequences, FiniteSets, TLC

VARIABLES
    variant,       \* which code runs: "RunServer", "start_workers", "BaseCommand",
                   \* the wrapper class "ProcessWrapper" or "Worker", or "handle"
    nworkers,      \* number of Workers of the collection
    cfg,           \* [wait, timeout]: wait_unless_ready and timeout the Workers are started with
    workers,       \* worker index -> the Worker object and the state of its current handle
    max_restarts,  \* the local variable max_restarts of the supervisor loop
    pc,            \* position of the master control flow
    outcome,       \* how the entry point ended: "none" while it runs
    log,           \* the log records written by the last step of the master
    hist,          \* history: what the master has observed and done so far
    api,           \* the last call made on the Worker API and what it gave back
    proc,          \* one execution handle seen from the inside: the object and its run()
    ppid,          \* what os.getppid() gives inside that handle
    polled,        \* what the creator's last read of the handle's ready property gave
    stops,         \* worker index -> the stop() calls the master has made on the Worker
    ioloop,        \* process (0: the master, i: the handle of worker i) -> the number
                   \* of IOLoop.stop callbacks queued on the IOLoop of that process
    master,        \* the master process: signals received, how it ended
    bind,          \* RunServer.initialize: the settings, the collection built from them
    svc            \* BaseCommand.__call__: the class flags, the configured signal
                   \* handlers, the signals handled and sent, the workers terminated

\* The state of the command that owns the collection.
cmdvars == <<stops, ioloop, master, bind, svc>>

vars == <<variant, nworkers, cfg, workers, max_restarts, pc, outcome, log, hist, api,
          proc, ppid, polled, cmdvars>>

(***************************************************************************)
(* Bounds of the model.                                                    *)
(***************************************************************************)
MaxWorkers == 2
MaxRestarts == 2
MaxExits == 3
MaxLoops == 2
MaxInterfaces == 2
MaxProcesses == 2
MaxJobs == 1
MaxCpu == 2
MaxSignals == 1

(***************************************************************************)
(* Python values.                                                          *)
(***************************************************************************)
None == 1000

\* Process ids: the master that creates the handles, and init, which adopts
\* the children of a dead master.
MasterPid == 100
InitPid == 1

\* Python's truth value of an Optional number: None and 0 are false.
Truthy(x) == x # None /\ x # 0

\* Exit statuses a dead handle can show: clean, an error code, killed by SIGINT,
\* killed by the real-time signal 35 (SIGRTMIN+1).
ExitCodes == {0, 1, -2, -35}

\* timeout values of the configuration, in poll intervals of the readiness wait.
Timeouts == {None, 0, 1}

Abs(x) == IF x < 0 THEN -x ELSE x

\* The dictionary built from the names of the signal module (Linux): the
\* numbered real-time signals between SIGRTMIN and SIGRTMAX have no name.
SIGNALS_TO_NAMES_DICT ==
    [n \in (1..31) \cup {34, 64} |->
        CASE n = 1 -> "SIGHUP" [] n = 2 -> "SIGINT" [] n = 3 -> "SIGQUIT"
          [] n = 4 -> "SIGILL" [] n = 5 -> "SIGTRAP" [] n = 6 -> "SIGIOT"
          [] n = 7 -> "SIGBUS" [] n = 8 -> "SIGFPE" [] n = 9 -> "SIGKILL"
          [] n = 10 -> "SIGUSR1" [] n = 11 -> "SIGSEGV" [] n = 12 -> "SIGUSR2"
          [] n = 13 -> "SIGPIPE" [] n = 14 -> "SIGALRM" [] n = 15 -> "SIGTERM"
          [] n = 16 -> "SIGSTKFLT" [] n = 17 -> "SIGCLD" [] n = 18 -> "SIGCONT"
          [] n = 19 -> "SIGSTOP" [] n = 20 -> "SIGTSTP" [] n = 21 -> "SIGTTIN"
          [] n = 22 -> "SIGTTOU" [] n = 23 -> "SIGURG" [] n = 24 -> "SIGXCPU"
          [] n = 25 -> "SIGXFSZ" [] n = 26 -> "SIGVTALRM" [] n = 27 -> "SIGPROF"
          [] n = 28 -> "SIGWINCH" [] n = 29 -> "SIGPOLL" [] n = 30 -> "SIGPWR"
          [] n = 31 -> "SIGSYS" [] n = 34 -> "SIGRTMIN" [] OTHER -> "SIGRTMAX"]

(***************************************************************************)
(* The Worker object: process is the number of the current handle (None    *)
(* before the first start); alive, exitcode and ready are the state of     *)
(* that handle; calls counts the invocations of the factory.               *)
(***************************************************************************)
NewWorker == [process |-> None, alive |-> FALSE, exitcode |-> None, ready |-> FALSE, calls |-> 0]

\* ProcessWrapper.has_started / Worker.has_started
has_started(w) == w.process # None

\* ProcessWrapper.is_alive / Worker.is_alive (also the truth value of the object)
is_alive(w) == IF w.process = None THEN FALSE ELSE w.alive

\* ProcessWrapper.pid / Worker.pid
pid(w) == IF w.process = None THEN None ELSE w.process

\* The wrapper class an entry point uses: RunServer holds ProcessWrapper
\* objects, start_workers and BaseCommand hold Worker objects.
WrapperOf(v) ==
    IF v \in {"RunServer", "ProcessWrapper"} THEN "ProcessWrapper" ELSE "Worker"

\* What the exitcode property gives: [raised |-> exception or "none", value |-> ...].
\* ProcessWrapper raises ProcessError before the first start; Worker reads the
\* attribute of None, which raises AttributeError.
exitcode(v, w) ==
    IF w.process = None
    THEN [raised |-> IF WrapperOf(v) = "ProcessWrapper" THEN "ProcessError" ELSE "AttributeError",
          value |-> None]
    ELSE [raised |-> "none", value |-> w.exitcode]

\* A start that launches again the handle the Worker already holds.
SameHandle(w) == IF w.process = None THEN 1 ELSE w.process

\* The handle a call of the factory gives a Worker: handles are numbered per
\* Worker, so a handle is never the one the Worker held before.
NewHandle(w) == w.calls + 1

\* Launch without the guard "if self: raise ProcessError".
LaunchUnguarded(w) ==
    [raised |-> "none",
     worker |-> [process |-> NewHandle(w), alive |-> TRUE, exitcode |-> None,
                 ready |-> FALSE, calls |-> w.calls + 1]]

\* The start of a Worker up to the launch of the new handle: the guard, the
\* factory call and handle.start(). Gives [raised, worker].
Launch(w) ==
    IF is_alive(w)
    THEN [raised |-> "ProcessError", worker |-> w]
    ELSE [raised |-> "none",
          worker |-> [process |-> NewHandle(w), alive |-> TRUE, exitcode |-> None,
                      ready |-> FALSE, calls |-> w.calls + 1]]

\* Whether start() goes on to the readiness wait after the launch.
\* ProcessWrapper waits on the first run only; Worker waits on every start.
\* firstRun is "not has_started" read before the launch.
Waits(v, firstRun, wait) ==
    IF WrapperOf(v) = "ProcessWrapper" THEN firstRun /\ wait ELSE wait

\* Which wait loop start() runs: the timed one only for a true timeout.
WaitMode(timeout) == IF Truthy(timeout) THEN "timed" ELSE "forever"

(***************************************************************************)
(* The initial states: the collection of never started Workers, the        *)
(* max_restarts argument and the readiness settings.                       *)
(***************************************************************************)
W == 1..nworkers

\* budget is the max_restarts argument the loop was called with; fails counts the
\* non-zero exits the loop has seen, restarts the starts that followed them,
\* exits the exits of handles; onlypos says every exit so far had a positive status.
\* steady says the loop has finished a pass over the collection.
Hist0 == [budget |-> -1, restarts |-> 0, fails |-> 0, exits |-> 0, onlypos |-> TRUE,
          steady |-> FALSE]

PcFor(i) == [at |-> "for", i |-> i, elapsed |-> 0, mode |-> "none", after |-> "none"]
PcWait(i, mode, after) == [at |-> "wait", i |-> i, elapsed |-> 0, mode |-> mode, after |-> after]
PcSleep == [at |-> "sleep", i |-> 0, elapsed |-> 0, mode |-> "none", after |-> "none"]
PcEnd(i) == [at |-> "end", i |-> i, elapsed |-> 0, mode |-> "none", after |-> "none"]
PcIdle == [at |-> "idle", i |-> 0, elapsed |-> 0, mode |-> "none", after |-> "none"]
PcCommand == [at |-> "command", i |-> 0, elapsed |-> 0, mode |-> "none", after |-> "none"]

\* started: whether the Worker had a handle when the call was made.
ApiNone == [op |-> "none", w |-> 0, raised |-> "none", value |-> None, started |-> FALSE]

\* No handle is looked at from the inside.
NoProc == [kind |-> "none"]

\* calls counts the stop() calls made on a Worker, onalive says one of them
\* found the Worker alive.
NoStop == [calls |-> 0, onalive |-> FALSE]

\* The master process while it runs: exit is its exit status, how the call
\* or signal that ended it, children whether it had live children then.
Master0 == [interrupted |-> FALSE, sigterm |-> FALSE, exit |-> None, how |-> "none",
            children |-> FALSE]

\* No collection is being built.
NoBind == [step |-> "none"]

\* No BaseCommand is being called.
NoSvc == [start |-> FALSE]

InitCommon ==
    /\ nworkers \in 1..MaxWorkers
    /\ workers = [i \in 1..nworkers |-> NewWorker]
    /\ outcome = "none"
    /\ log = <<>>
    /\ api = ApiNone
    /\ proc = NoProc
    /\ ppid = MasterPid
    /\ polled = FALSE
    /\ stops = [i \in 1..nworkers |-> NoStop]
    /\ ioloop = [i \in 0..nworkers |-> 0]
    /\ master = Master0
    /\ bind = NoBind

\* The readiness settings init_tornado_workers gives an HTTP worker (a timeout
\* of 5.0 seconds: here one poll interval), and those of a service process
\* configured not to wait.
TornadoCfg == [wait |-> TRUE, timeout |-> 1]
NoWaitCfg == [wait |-> FALSE, timeout |-> None]

\* start_workers starts its Workers with the defaults of Worker.start.
\* BaseCommand.start_service_processes starts each service process with the
\* wait_unless_ready and timeout of its SERVICE_PROCESSES entry; it has no
\* restart budget.
InitSup ==
    /\ InitCommon
    /\ svc = NoSvc
    /\ variant \in {"RunServer", "start_workers", "BaseCommand"}
    /\ max_restarts \in (-1)..MaxRestarts
    /\ hist = [Hist0 EXCEPT !.budget = max_restarts]
    /\ cfg \in [wait : BOOLEAN, timeout : Timeouts]
    /\ variant = "RunServer" => cfg \in {TornadoCfg, NoWaitCfg}
    /\ variant = "start_workers" => cfg = NoWaitCfg
    /\ variant = "BaseCommand" => max_restarts = -1
    /\ pc = PcFor(1)

\* The Worker API called directly on one Worker: any caller, any order.
InitAPI ==
    /\ InitCommon
    /\ svc = NoSvc
    /\ nworkers = 1
    /\ variant \in {"ProcessWrapper", "Worker"}
    /\ max_restarts = -1
    /\ hist = Hist0
    /\ cfg \in [wait : BOOLEAN, timeout : Timeouts]
    /\ pc = PcIdle

(***************************************************************************)
(* The worker side and the environment, as the master sees them.           *)
(***************************************************************************)
\* The handle sets its readiness flag (BaseProcess.run after the first loop(),
\* TornadoProcess's run_ioloop_callback).
SetReady(i) ==
    /\ workers[i].alive
    /\ ~workers[i].ready
    /\ workers' = [workers EXCEPT ![i].ready = TRUE]
    /\ UNCHANGED <<variant, nworkers, cfg, max_restarts, pc, outcome, log, hist, api, proc, ppid, polled, cmdvars>>

\* The handle exits with status code (it returned, raised or was killed).
Exit(i, code) ==
    /\ workers[i].alive
    /\ hist.exits < MaxExits
    /\ workers' = [workers EXCEPT ![i].alive = FALSE, ![i].exitcode = code]
    /\ hist' = [hist EXCEPT !.exits = @ + 1, !.onlypos = @ /\ code > 0]
    /\ UNCHANGED <<variant, nworkers, cfg, max_restarts, pc, outcome, log, api, proc, ppid, polled, cmdvars>>

(***************************************************************************)
(* The supervisor loops.                                                   *)
(***************************************************************************)
\* The next position of "for ... in collection: ... else: sleep; continue".
Advance(i) == IF i < nworkers THEN PcFor(i + 1) ELSE PcSleep

\* Leave with the exception swallowed: the loop goes on with the next worker.
LeaveSwallowed(i) == Advance(i)

\* An exception raised while worker i is handled is caught nowhere in the loop:
\* it leaves the loop, and so does the break of start_workers.
Leave(i) == PcEnd(i)

\* How a dead worker's exit status is reported: the log record, or the
\* exception of the lookup of the signal's name.
\* RunServer.start_processes logs the numeric code, start_workers does not.
Classify(v, name, p, e) ==
    IF e > 0
    THEN [raised |-> "none",
          rec |-> [level |-> "error",
                   msg |-> IF v = "RunServer" THEN "died with exitcode" ELSE "died due to error",
                   worker |-> name, pid |-> p,
                   arg |-> IF v = "RunServer" THEN ToString(e) ELSE ""]]
    ELSE IF Abs(e) \in DOMAIN SIGNALS_TO_NAMES_DICT
    THEN [raised |-> "none",
          rec |-> [level |-> "error", msg |-> "died due to", worker |-> name, pid |-> p,
                   arg |-> SIGNALS_TO_NAMES_DICT[Abs(e)]]]
    ELSE [raised |-> "KeyError", rec |-> [level |-> "none", msg |-> "", worker |-> name, pid |-> p, arg |-> ""]]

FatalRec == [level |-> "fatal", msg |-> "Too many child restarts", worker |-> 0, pid |-> None, arg |-> ""]
InfoRec(msg, name, p) == [level |-> "info", msg |-> msg, worker |-> name, pid |-> p, arg |-> ""]

\* "if not max_restarts": the budget is exhausted.
Exhausted(m) == m = 0

\* Decrement with the decrement left out.
DecrementNever(m) == m

\* "if max_restarts > 0: max_restarts -= 1"
Decrement(m) == IF m > 0 THEN m - 1 ELSE m

\* What the history records when a dead worker's non-zero status e is seen.
SeeFail(h, e) == [h EXCEPT !.fails = @ + 1]

\* One iteration of the for loop of RunServer.start_processes.
ExamineRunServer ==
    /\ variant = "RunServer"
    /\ pc.at = "for"
    /\ LET i == pc.i
           w == workers[i]
           L == Launch(w)
       IN  IF is_alive(w)
           THEN /\ pc' = Advance(i)
                /\ log' = <<>>
                /\ UNCHANGED <<workers, max_restarts, outcome, hist>>
           ELSE IF ~has_started(w)
           THEN \* first start, with the readiness wait if configured
                /\ workers' = [workers EXCEPT ![i] = L.worker]
                /\ pc' = IF Waits(variant, TRUE, cfg.wait)
                         THEN PcWait(i, WaitMode(cfg.timeout), "next")
                         ELSE Advance(i)
                /\ log' = <<>>
                /\ UNCHANGED <<max_restarts, outcome, hist>>
           ELSE LET e == exitcode(variant, w).value
                    c == Classify(variant, i, pid(w), e)
                IN  IF e # 0
                    THEN IF c.raised # "none"
                         THEN /\ outcome' = c.raised
                              /\ pc' = Leave(i)
                              /\ log' = <<>>
                              /\ hist' = SeeFail(hist, e)
                              /\ UNCHANGED <<workers, max_restarts>>
                         ELSE IF Exhausted(max_restarts)
                         THEN /\ outcome' = "CommandError"
                              /\ pc' = Leave(i)
                              /\ log' = <<c.rec, FatalRec>>
                              /\ hist' = SeeFail(hist, e)
                              /\ UNCHANGED <<workers, max_restarts>>
                         ELSE /\ workers' = [workers EXCEPT ![i] = L.worker]
                              /\ max_restarts' = Decrement(max_restarts)
                              /\ pc' = Advance(i)
                              /\ log' = <<c.rec>>
                              /\ hist' = [SeeFail(hist, e) EXCEPT !.restarts = @ + 1]
                              /\ UNCHANGED outcome
                    ELSE /\ workers' = [workers EXCEPT ![i] = L.worker]
                         /\ pc' = Advance(i)
                         /\ log' = <<InfoRec("has stopped", i, pid(w)),
                                     InfoRec("has been started", i, pid(L.worker))>>
                         /\ UNCHANGED <<max_restarts, outcome, hist>>
    /\ UNCHANGED <<variant, nworkers, cfg, api, proc, ppid, polled, cmdvars>>

\* One iteration of the for loop of start_workers. worker.start() is called
\* with its defaults: wait_unless_ready=True, timeout=None.
ExamineStartWorkers ==
    /\ variant = "start_workers"
    /\ pc.at = "for"
    /\ LET i == pc.i
           w == workers[i]
           L == Launch(w)
       IN  IF is_alive(w)
           THEN /\ pc' = Advance(i)
                /\ log' = <<>>
                /\ UNCHANGED <<workers, max_restarts, outcome, hist>>
           ELSE IF ~has_started(w)
           THEN /\ workers' = [workers EXCEPT ![i] = L.worker]
                /\ pc' = IF Waits(variant, TRUE, TRUE)
                         THEN PcWait(i, WaitMode(None), "next")
                         ELSE Advance(i)
                /\ log' = <<>>
                /\ UNCHANGED <<max_restarts, outcome, hist>>
           ELSE LET e == exitcode(variant, w).value
                    c == Classify(variant, i, pid(w), e)
                IN  IF e # 0
                    THEN IF c.raised # "none"
                         THEN /\ outcome' = c.raised
                              /\ pc' = Leave(i)
                              /\ log' = <<>>
                              /\ hist' = SeeFail(hist, e)
                              /\ UNCHANGED <<workers, max_restarts>>
                         ELSE IF Exhausted(max_restarts)
                         THEN \* logger.fatal and break: the function returns
                              /\ outcome' = "returned"
                              /\ pc' = Leave(i)
                              /\ log' = <<c.rec, FatalRec>>
                              /\ hist' = SeeFail(hist, e)
                              /\ UNCHANGED <<workers, max_restarts>>
                         ELSE \* the decrement follows the return of start()
                              /\ workers' = [workers EXCEPT ![i] = L.worker]
                              /\ pc' = IF Waits(variant, FALSE, TRUE)
                                       THEN PcWait(i, WaitMode(None), "decrement")
                                       ELSE Advance(i)
                              /\ log' = <<c.rec>>
                              /\ hist' = [SeeFail(hist, e) EXCEPT !.restarts = @ + 1]
                              /\ UNCHANGED <<max_restarts, outcome>>
                    ELSE \* status 0: no branch of the loop handles it
                         /\ pc' = Advance(i)
                         /\ log' = <<>>
                         /\ UNCHANGED <<workers, max_restarts, outcome, hist>>
    /\ UNCHANGED <<variant, nworkers, cfg, api, proc, ppid, polled, cmdvars>>

\* The readiness wait of start(): "ProcessError" when the wait loop is left
\* with the flag unset, "return" when it is left with the flag set, "sleep"
\* while the loop goes on. elapsed counts the sleeps of the timed loop.
\* A wait that gives up as soon as it finds the flag unset.
WaitGivesUp(mode, elapsed, timeout, ready) ==
    IF ready THEN "return" ELSE "ProcessError"

WaitResult(mode, elapsed, timeout, ready) ==
    IF mode = "timed"
    THEN IF elapsed < timeout /\ ~ready THEN "sleep"
         ELSE IF ~ready THEN "ProcessError" ELSE "return"
    ELSE IF ~ready THEN "sleep" ELSE "return"

\* Where the master goes when start() returns: on in the for loop (after the
\* decrement that follows a restart in start_workers), to the next service
\* process of start_service_processes, or back to the caller of the API.
AfterStart(after, i) ==
    IF after = "api" THEN PcIdle
    ELSE IF after = "append" THEN (IF i < nworkers THEN PcFor(i + 1) ELSE PcCommand)
    ELSE Advance(i)

\* One evaluation of the condition of the wait loop of start().
WaitPoll ==
    /\ pc.at = "wait"
    /\ LET i == pc.i
           r == WaitResult(pc.mode, pc.elapsed, cfg.timeout, workers[i].ready)
       IN  IF r = "sleep"
           THEN \* time.sleep: only the timed loop reads the clock
                /\ pc' = IF pc.mode = "timed" THEN [pc EXCEPT !.elapsed = @ + 1] ELSE pc
                /\ UNCHANGED <<max_restarts, outcome, api>>
           ELSE IF r = "ProcessError"
           THEN /\ pc' = IF pc.after = "api" THEN PcIdle ELSE Leave(i)
                /\ outcome' = IF pc.after = "api" THEN outcome ELSE "ProcessError"
                /\ api' = IF pc.after = "api" THEN [api EXCEPT !.raised = "ProcessError"] ELSE api
                /\ UNCHANGED max_restarts
           ELSE /\ pc' = AfterStart(pc.after, i)
                /\ max_restarts' = IF pc.after = "decrement"
                                   THEN Decrement(max_restarts) ELSE max_restarts
                /\ api' = IF pc.after = "api" THEN [api EXCEPT !.raised = "none"] ELSE api
                /\ UNCHANGED outcome
    /\ log' = <<>>
    /\ UNCHANGED <<variant, nworkers, cfg, workers, hist, proc, ppid, polled, cmdvars>>

\* time.sleep at the end of a pass, then the next pass.
Sleep ==
    /\ pc.at = "sleep"
    /\ pc' = PcFor(1)
    /\ log' = <<>>
    /\ hist' = [hist EXCEPT !.steady = TRUE]
    /\ UNCHANGED <<variant, nworkers, cfg, workers, max_restarts, outcome, api, proc, ppid, polled, cmdvars>>

\* One iteration of the for loop of BaseCommand.start_service_processes: the
\* Worker of service process i is created and started; it is appended to the
\* command's workers when start() has returned.
StartServiceProcess ==
    /\ variant = "BaseCommand"
    /\ pc.at = "for"
    /\ LET i == pc.i
           L == Launch(NewWorker)
       IN  /\ workers' = [workers EXCEPT ![i] = L.worker]
           /\ pc' = IF Waits(variant, TRUE, cfg.wait)
                    THEN PcWait(i, WaitMode(cfg.timeout), "append")
                    ELSE AfterStart("append", i)
    /\ log' = <<>>
    /\ UNCHANGED <<variant, nworkers, cfg, max_restarts, outcome, hist, api, proc, ppid, polled, cmdvars>>

NextSup ==
    \/ ExamineRunServer
    \/ ExamineStartWorkers
    \/ StartServiceProcess
    \/ WaitPoll
    \/ Sleep
    \/ \E i \in W : SetReady(i)
    \/ \E i \in W, code \in ExitCodes : Exit(i, code)

SpecSup == InitSup /\ [][NextSup]_vars

(***************************************************************************)
(* The Worker API, called by any caller at any time.                       *)
(***************************************************************************)
\* start() of Worker i, with the readiness settings cfg: the launch, then the
\* readiness wait if start() makes one.
ApiStart(i) ==
    /\ pc.at = "idle"
    /\ LET w == workers[i]
           L == Launch(w)
       IN  IF L.raised # "none"
           THEN /\ api' = [op |-> "start", w |-> i, raised |-> L.raised, value |-> None,
                           started |-> has_started(w)]
                /\ workers' = [workers EXCEPT ![i] = L.worker]
                /\ UNCHANGED pc
           ELSE /\ workers' = [workers EXCEPT ![i] = L.worker]
                /\ IF Waits(variant, ~has_started(w), cfg.wait)
                   THEN /\ pc' = PcWait(i, WaitMode(cfg.timeout), "api")
                        /\ api' = [op |-> "start", w |-> i, raised |-> "waiting", value |-> None,
                                   started |-> has_started(w)]
                   ELSE /\ pc' = PcIdle
                        /\ api' = [op |-> "start", w |-> i, raised |-> "none", value |-> None,
                                   started |-> has_started(w)]
    /\ UNCHANGED <<variant, nworkers, cfg, max_restarts, outcome, log, hist, proc, ppid, polled, cmdvars>>

\* A read of the exitcode property of Worker i.
ApiExitcode(i) ==
    /\ pc.at = "idle"
    /\ LET r == exitcode(variant, workers[i])
       IN  api' = [op |-> "exitcode", w |-> i, raised |-> r.raised, value |-> r.value,
                   started |-> has_started(workers[i])]
    /\ UNCHANGED <<variant, nworkers, cfg, workers, max_restarts, pc, outcome, log, hist, proc, ppid, polled, cmdvars>>

NextAPI ==
    \/ \E i \in W : ApiStart(i)
    \/ \E i \in W : ApiExitcode(i)
    \/ WaitPoll
    \/ \E i \in W : SetReady(i)
    \/ \E i \in W, code \in ExitCodes : Exit(i, code)

SpecAPI == InitAPI /\ [][NextAPI]_vars

(***************************************************************************)
(* The worker side: one execution handle from its construction to its end. *)
(* kind "process" is a BaseProcess run in a process of its own, "thread" a *)
(* BaseProcess run in a thread of its creator, "tornado" a TornadoProcess. *)
(***************************************************************************)
Kinds == {"process", "thread", "tornado"}

\* BaseProcess.__init__ / TornadoProcess.__init__, run by the creator:
\* _parent_pid is the creator's pid, the flag is False, _http_server is None.
\* first stands for "next_loop_time is 0"; loops counts the work units done
\* (loop() calls, requests served); queue holds the callbacks of the IOLoop.
\* sigint and stopreq are history: the value of loops when the handle
\* received SIGINT, and when stop() was called on it; None before.
\* initialized, added and started follow run() of a TornadoProcess:
\* initialize_child returned, the sockets were added, IOLoop.start was called.
NewProc(kind) ==
    [kind |-> kind, state |-> "created", parent_pid |-> MasterPid, ready |-> FALSE,
     first |-> TRUE, loops |-> 0, queue |-> <<>>, u_http_server |-> FALSE,
     http_server |-> FALSE, listening |-> FALSE, handler |-> FALSE,
     exitcode |-> None, last |-> "init", sigint |-> None, stopreq |-> None,
     initialized |-> FALSE, added |-> FALSE, started |-> FALSE]

InitProc ==
    /\ variant = "handle"
    /\ nworkers = 1
    /\ workers = [i \in 1..1 |-> NewWorker]
    /\ cfg = NoWaitCfg
    /\ max_restarts = -1
    /\ pc = PcIdle
    /\ outcome = "none"
    /\ log = <<>>
    /\ hist = Hist0
    /\ api = ApiNone
    /\ proc \in {NewProc(k) : k \in Kinds}
    /\ ppid = MasterPid
    /\ polled = FALSE
    /\ stops = [i \in 1..1 |-> NoStop]
    /\ ioloop = [i \in 0..1 |-> 0]
    /\ master = Master0
    /\ bind = NoBind
    /\ svc = NoSvc

supvars == <<variant, nworkers, cfg, workers, max_restarts, pc, outcome, log, hist, api, cmdvars>>

\* separate_process of a BaseProcess.
Separate(p) == p.kind = "process"

\* A watchdog that never finds the parent changed.
OrphanedNever(p, live) == FALSE

\* The watchdog's test: the live parent id is not the recorded one.
Orphaned(p, live) == live # p.parent_pid

\* ReadyAfterLoop that assigns "not next_loop_time" to the flag on every pass.
ReadyAssignedEveryLoop(first, ready) == first

\* The flag after a loop() call that returned: set after the first call only
\* ("if not next_loop_time and not self.ready").
ReadyAfterLoop(first, ready) == IF first /\ ~ready THEN TRUE ELSE ready

\* run() of a BaseProcess begins; in a process of its own it installs the
\* SIGINT handler.
BPRun ==
    /\ proc.kind \in {"process", "thread"}
    /\ proc.state = "created"
    /\ proc' = [proc EXCEPT !.state = "running", !.handler = Separate(proc), !.last = "run"]
    /\ UNCHANGED <<supvars, ppid, polled>>

\* One iteration of the loop of BaseProcess.run: the parent test, then either
\* loop() (which returns or raises) or a sleep. due is "time.time() >=
\* next_loop_time" once next_loop_time is set.
BPIterate(due, raises) ==
    /\ proc.kind \in {"process", "thread"}
    /\ proc.state = "running"
    /\ IF Separate(proc) /\ Orphaned(proc, ppid)
       THEN proc' = [proc EXCEPT !.state = "stopping", !.last = "tick"]
       ELSE IF proc.first \/ due
       THEN /\ proc.loops < MaxLoops
            /\ IF raises
               THEN proc' = [proc EXCEPT !.state = "exited", !.exitcode = 1, !.last = "loop"]
               ELSE proc' = [proc EXCEPT !.loops = @ + 1,
                                         !.ready = ReadyAfterLoop(proc.first, proc.ready),
                                         !.first = FALSE, !.last = "loop"]
       ELSE proc' = proc
    /\ UNCHANGED <<supvars, ppid, polled>>

\* run() returns after the break: the handle ends with status 0.
BPReturn ==
    /\ proc.kind \in {"process", "thread"}
    /\ proc.state = "stopping"
    /\ proc' = [proc EXCEPT !.state = "exited", !.exitcode = 0, !.last = "return"]
    /\ UNCHANGED <<supvars, ppid, polled>>

\* SIGINT reaches a BaseProcess whose handler is installed: the handler
\* sets _parent_pid to 0.
BPSigint ==
    /\ proc.kind = "process"
    /\ proc.state = "running"
    /\ proc.handler
    /\ proc' = [proc EXCEPT !.parent_pid = 0, !.last = "sigint",
                            !.sigint = IF @ = None THEN proc.loops ELSE @]
    /\ UNCHANGED <<supvars, ppid, polled>>

\* stop() is called on a running BaseProcess handle, as ProcessWrapper.stop
\* does: BaseProcess defines no stop() and neither multiprocessing.Process nor
\* threading.Thread has one, so the call raises AttributeError and the handle
\* is left as it is.
BPStopCall ==
    /\ proc.kind \in {"process", "thread"}
    /\ proc.state = "running"
    /\ proc.stopreq = None
    /\ proc' = [proc EXCEPT !.stopreq = proc.loops, !.last = "stop"]
    /\ UNCHANGED <<supvars, ppid, polled>>

\* TornadoProcess.stop: the HTTP server is stopped if _http_server is set,
\* and IOLoop.stop is queued.
Stop(p) ==
    [p EXCEPT !.state = "stopping",
              !.listening = IF p.u_http_server THEN FALSE ELSE @,
              !.queue = Append(@, "IOLoop.stop")]

\* An IOLoop that runs callbacks as soon as they are added.
LoopRunsAtOnce(p) == TRUE

\* The IOLoop runs callbacks, timers and socket handlers only inside
\* IOLoop.start().
LoopRuns(p) == p.started

\* TornadoProcess.run up to the registration of run_ioloop_callback: the
\* server is kept in http_server, initialize_child is called, the SIGINT
\* handler installed and run_ioloop_callback added to the IOLoop, which is
\* not running yet.
TPRun ==
    /\ proc.kind = "tornado"
    /\ proc.state = "created"
    /\ proc' = [proc EXCEPT !.state = "running", !.http_server = TRUE,
                            !.initialized = TRUE, !.handler = TRUE,
                            !.queue = <<"run_ioloop_callback">>, !.last = "run"]
    /\ UNCHANGED <<supvars, ppid, polled>>

\* The rest of TornadoProcess.run: the parent check is scheduled, the sockets
\* are added to the server and IOLoop.start() is called.
TPStartLoop ==
    /\ proc.kind = "tornado"
    /\ proc.state = "running"
    /\ ~proc.started
    /\ proc' = [proc EXCEPT !.added = TRUE, !.listening = TRUE, !.started = TRUE,
                            !.last = "start"]
    /\ UNCHANGED <<supvars, ppid, polled>>

\* The IOLoop runs its oldest callback.
TPCallback ==
    /\ proc.kind = "tornado"
    /\ proc.state \in {"running", "stopping"}
    /\ LoopRuns(proc)
    /\ proc.queue # <<>>
    /\ LET cb == Head(proc.queue)
           p == [proc EXCEPT !.queue = Tail(@), !.last = cb]
       IN  proc' = IF cb = "run_ioloop_callback" THEN [p EXCEPT !.ready = TRUE]
                   ELSE IF cb = "stop" THEN Stop(p)
                   ELSE [p EXCEPT !.state = "exited", !.exitcode = 0, !.queue = <<>>]
    /\ UNCHANGED <<supvars, ppid, polled>>

\* check_parent_callback, run by the IOLoop after the callbacks queued before.
TPTick ==
    /\ proc.kind = "tornado"
    /\ proc.state = "running"
    /\ LoopRuns(proc)
    /\ proc.queue = <<>>
    /\ proc' = IF Orphaned(proc, ppid) THEN [Stop(proc) EXCEPT !.last = "tick"] ELSE proc
    /\ UNCHANGED <<supvars, ppid, polled>>

\* SIGINT reaches a TornadoProcess: the handler queues self.stop.
TPSigint ==
    /\ proc.kind = "tornado"
    /\ proc.state = "running"
    /\ proc.handler
    /\ "stop" \notin {proc.queue[k] : k \in 1..Len(proc.queue)}
    /\ proc' = [proc EXCEPT !.queue = Append(@, "stop"), !.last = "sigint",
                            !.sigint = IF @ = None THEN proc.loops ELSE @]
    /\ UNCHANGED <<supvars, ppid, polled>>

\* The IOLoop serves a request on a listening socket: it polls its sockets
\* after the callbacks that were queued before the iteration.
TPRequest ==
    /\ proc.kind = "tornado"
    /\ proc.state \in {"running", "stopping"}
    /\ LoopRuns(proc)
    /\ proc.listening
    /\ proc.ready
    /\ proc.loops < MaxLoops
    /\ proc' = [proc EXCEPT !.loops = @ + 1, !.last = "request"]
    /\ UNCHANGED <<supvars, ppid, polled>>

\* The master ends: init becomes the parent of its children.
MasterDies ==
    /\ ppid = MasterPid
    /\ ppid' = InitPid
    /\ UNCHANGED <<supvars, proc, polled>>

\* The creator reads the ready property of the handle.
PollReady ==
    /\ ppid = MasterPid
    /\ polled' = proc.ready
    /\ UNCHANGED <<supvars, proc, ppid>>

NextProc ==
    \/ BPRun
    \/ \E due \in BOOLEAN, raises \in BOOLEAN : BPIterate(due, raises)
    \/ BPReturn
    \/ BPSigint
    \/ BPStopCall
    \/ TPRun
    \/ TPStartLoop
    \/ TPCallback
    \/ TPTick
    \/ TPSigint
    \/ TPRequest
    \/ MasterDies
    \/ PollReady

SpecProc == InitProc /\ [][NextProc]_vars

\* The handle is scheduled: a process that can take its next step takes it,
\* and the periodic parent check of the IOLoop fires. "created" after the end
\* of the master stands for a child that exists and has not entered run().
SpecProcFair ==
    /\ SpecProc
    /\ WF_vars(BPRun)
    /\ WF_vars(\E due \in BOOLEAN, raises \in BOOLEAN : BPIterate(due, raises))
    /\ WF_vars(BPReturn)
    /\ WF_vars(TPRun)
    /\ WF_vars(TPStartLoop)
    /\ WF_vars(TPCallback)
    /\ WF_vars(TPTick)

(***************************************************************************)
(* The runserver command: RunServer.command around the supervisor loop,    *)
(* and main() around the command.                                          *)
(***************************************************************************)
PcFinally(i) == [at |-> "finally", i |-> i, elapsed |-> 0, mode |-> "none", after |-> "none"]
PcMain == [at |-> "main", i |-> 0, elapsed |-> 0, mode |-> "none", after |-> "none"]
PcExited == [at |-> "exited", i |-> 0, elapsed |-> 0, mode |-> "none", after |-> "none"]

\* command() calls start_processes(max_restarts=100), and every handle of its
\* collection is a TornadoProcess. The model starts the loop with what is left
\* of that budget: any value the bound allows.
InitCmd ==
    /\ InitCommon
    /\ svc = NoSvc
    /\ variant = "RunServer"
    /\ max_restarts \in 0..MaxRestarts
    /\ hist = [Hist0 EXCEPT !.budget = max_restarts]
    /\ cfg = TornadoCfg
    /\ pc = PcFor(1)

\* The master's position is inside start_processes.
InLoop == pc.at \in {"for", "wait", "sleep"}

\* multiprocessing.active_children() is not empty.
ActiveChildren == \E i \in W : is_alive(workers[i])

\* SIGINT reaches the master inside the loop: Python raises KeyboardInterrupt
\* in the main thread, at the statement the loop is at.
Interrupt ==
    /\ InLoop
    /\ ~master.interrupted
    /\ master' = [master EXCEPT !.interrupted = TRUE]
    /\ outcome' = "KeyboardInterrupt"
    /\ pc' = Leave(pc.i)
    /\ log' = <<>>
    /\ UNCHANGED <<variant, nworkers, cfg, workers, max_restarts, hist, api, proc, ppid, polled,
                   stops, ioloop, bind, svc>>

\* SIGTERM reaches the master inside the loop: no handler is installed for it,
\* so the process is ended by the signal where it stands.
Sigterm ==
    /\ InLoop
    /\ master' = [master EXCEPT !.sigterm = TRUE, !.exit = -15, !.how = "signal",
                                !.children = ActiveChildren]
    /\ pc' = PcExited
    /\ log' = <<>>
    /\ UNCHANGED <<variant, nworkers, cfg, workers, max_restarts, outcome, hist, api, proc, ppid,
                   polled, stops, ioloop, bind, svc>>

\* The except clause with the clause left out.
CaughtNothing(exc) == exc

\* "except KeyboardInterrupt: pass": the exception that is still pending when
\* the finally clause begins.
Caught(exc) == IF exc = "KeyboardInterrupt" THEN "none" ELSE exc

\* The loop has been left by an exception: the try statement of command()
\* goes to its finally clause.
CommandExcept ==
    /\ pc.at = "end"
    /\ outcome' = Caught(outcome)
    /\ pc' = PcFinally(1)
    /\ log' = <<>>
    /\ UNCHANGED <<variant, nworkers, cfg, workers, max_restarts, hist, api, proc, ppid, polled,
                   cmdvars>>

\* ProcessWrapper.stop, run by the master: if the Worker is alive it calls
\* stop() of the handle object it holds, which is the master's copy of the
\* TornadoProcess. There _http_server is None, and IOLoop.instance() is the
\* IOLoop of the calling process: IOLoop.stop is queued on the master's IOLoop.
WrapperStop(q, w) == IF is_alive(w) THEN [q EXCEPT ![0] = @ + 1] ELSE q

\* What command() gives its caller after the finally clause: the pending
\* exception, or a normal return.
CommandResult(pending) == IF pending = "none" THEN "returned" ELSE pending

\* One iteration of the for loop of the finally clause of command().
StopProcess ==
    /\ pc.at = "finally"
    /\ LET i == pc.i
       IN  /\ log' = <<InfoRec("Stopping proces", i, pid(workers[i]))>>
           /\ stops' = [stops EXCEPT ![i] = [calls |-> @.calls + 1,
                                             onalive |-> @.onalive \/ is_alive(workers[i])]]
           /\ ioloop' = WrapperStop(ioloop, workers[i])
           /\ pc' = IF i < nworkers THEN PcFinally(i + 1) ELSE PcMain
           /\ outcome' = IF i < nworkers THEN outcome ELSE CommandResult(outcome)
    /\ UNCHANGED <<variant, nworkers, cfg, workers, max_restarts, hist, api, proc, ppid, polled,
                   master, bind, svc>>

\* The exit code with the except clause of main() left out.
ExitCodeAlwaysZero(result) == 0

\* main(): "try: command() except Exception: ... sys_exit(1)" then sys_exit(0).
ExitCodeOf(result) == IF result = "returned" THEN 0 ELSE 1

\* sys_exit: os._exit when the master has active children, else sys.exit.
sys_exit(code, children) ==
    [master EXCEPT !.exit = code, !.how = IF children THEN "os._exit" ELSE "sys.exit",
                   !.children = children]

\* command() has returned or raised to main(), which ends the master.
MainExit ==
    /\ pc.at = "main"
    /\ master' = sys_exit(ExitCodeOf(outcome), ActiveChildren)
    /\ pc' = PcExited
    /\ log' = <<>>
    /\ UNCHANGED <<variant, nworkers, cfg, workers, max_restarts, outcome, hist, api, proc, ppid,
                   polled, stops, ioloop, bind, svc>>

\* check_parent_callback of the handle of worker i, once the master has
\* ended: the handle calls its own stop(), which queues IOLoop.stop on the
\* handle's IOLoop.
WatchdogStop(i) ==
    /\ pc.at = "exited"
    /\ is_alive(workers[i])
    /\ ioloop[i] = 0
    /\ ioloop' = [ioloop EXCEPT ![i] = 1]
    /\ UNCHANGED <<variant, nworkers, cfg, workers, max_restarts, pc, outcome, log, hist, api,
                   proc, ppid, polled, stops, master, bind, svc>>

\* The IOLoop of the handle of worker i runs the queued IOLoop.stop: run()
\* returns and the handle ends with status 0.
IOLoopStops(i) ==
    /\ is_alive(workers[i])
    /\ ioloop[i] > 0
    /\ workers' = [workers EXCEPT ![i].alive = FALSE, ![i].exitcode = 0]
    /\ ioloop' = [ioloop EXCEPT ![i] = 0]
    /\ UNCHANGED <<variant, nworkers, cfg, max_restarts, pc, outcome, log, hist, api,
                   proc, ppid, polled, stops, master, bind, svc>>

NextCmd ==
    \/ ExamineRunServer
    \/ WaitPoll
    \/ Sleep
    \/ \E i \in W : SetReady(i)
    \/ \E i \in W, code \in ExitCodes : Exit(i, code)
    \/ Interrupt
    \/ Sigterm
    \/ CommandExcept
    \/ StopProcess
    \/ MainExit
    \/ \E i \in W : WatchdogStop(i)
    \/ \E i \in W : IOLoopStops(i)

SpecCmd == InitCmd /\ [][NextCmd]_vars

(***************************************************************************)
(* RunServer.initialize: the collection built from the settings.           *)
(***************************************************************************)
\* An entry of settings.INTERFACES: whether LISTEN and UNIX_SOCKET are given,
\* and PROCESSES. The name of an interface is its place in the settings.
Descriptors == [listen : BOOLEAN, unix : BOOLEAN, processes : (-1)..MaxProcesses]

\* The name of a ProcessWrapper: the interface's name, or the class name of a
\* service process.
InterfaceName(k) == <<"interface", k>>
ServiceName(k) == <<"service", k>>

\* A ProcessWrapper as its constructor leaves it: _process is None.
Wrapper(name) == [name |-> name, worker |-> NewWorker]

\* step is the position in initialize(); k the descriptor at hand; config the
\* Interface tuples Config.interfaces has built; sockets the number of
\* listening sockets bound; local the workers list of init_tornado_workers;
\* processes the collection RunServer.processes.
NewBind(interfaces, jobs, cpu) ==
    [step |-> "services", interfaces |-> interfaces, jobs |-> jobs, cpu |-> cpu, k |-> 1,
     config |-> <<>>, sockets |-> 0, local |-> <<>>, processes |-> <<>>, error |-> "none"]

InitBind ==
    /\ svc = NoSvc
    /\ variant = "initialize"
    /\ nworkers = 1
    /\ workers = [i \in 1..1 |-> NewWorker]
    /\ cfg = TornadoCfg
    /\ max_restarts = -1
    /\ pc = PcIdle
    /\ outcome = "none"
    /\ log = <<>>
    /\ hist = Hist0
    /\ api = ApiNone
    /\ proc = NoProc
    /\ ppid = MasterPid
    /\ polled = FALSE
    /\ stops = [i \in 1..1 |-> NoStop]
    /\ ioloop = [i \in 0..1 |-> 0]
    /\ master = Master0
    /\ \E n \in 1..MaxInterfaces, jobs \in 0..MaxJobs, cpu \in 1..MaxCpu :
          \E interfaces \in [1..n -> Descriptors] :
              bind = NewBind(interfaces, jobs, cpu)

bindrest == <<variant, nworkers, cfg, workers, max_restarts, pc, outcome, log, hist, api,
              proc, ppid, polled, stops, ioloop, master, svc>>

\* init_service_processes and the extend of its result: one ProcessWrapper
\* for each entry of settings.SERVICE_PROCESSES.
InitServiceProcesses ==
    /\ bind.step = "services"
    /\ bind' = [bind EXCEPT !.step = "config",
                            !.processes = @ \o [j \in 1..bind.jobs |-> Wrapper(ServiceName(j))]]
    /\ UNCHANGED bindrest

\* The test of Config.interfaces on a descriptor.
ListensNowhere(d) == ~d.listen /\ ~d.unix

\* One iteration of the loop of Config.interfaces, which get_tornado_apps
\* reads when init_tornado_workers calls it: the descriptor is refused or
\* becomes an Interface tuple.
ConfigInterface ==
    /\ bind.step = "config"
    /\ LET k == bind.k
           d == bind.interfaces[k]
       IN  bind' = IF ListensNowhere(d)
                   THEN [bind EXCEPT !.step = "failed", !.error = "ValueError"]
                   ELSE [bind EXCEPT !.config = Append(@, d),
                                     !.k = IF k < Len(bind.interfaces) THEN k + 1 ELSE 1,
                                     !.step = IF k < Len(bind.interfaces) THEN "config"
                                              ELSE "workers"]
    /\ UNCHANGED bindrest

\* The number of workers with the rule for counts of 0 and less read as
\* "a single process".
SingleProcess(n, cpu) == IF n <= 0 THEN 1 ELSE n

\* "if processes <= 0: processes = tornado.process.cpu_count()"
EffectiveProcesses(n, cpu) == IF n <= 0 THEN cpu ELSE n

\* The listening sockets bound for an interface: bind_sockets for the port,
\* bind_unix_socket for the socket path.
Bound(d) == (IF d.listen THEN 1 ELSE 0) + (IF d.unix THEN 1 ELSE 0)

\* One iteration of the loop of init_tornado_workers, and after the last one
\* the return of the list and the extend of RunServer.processes.
InitTornadoWorkers ==
    /\ bind.step = "workers"
    /\ LET k == bind.k
           d == bind.config[k]
           n == EffectiveProcesses(d.processes, bind.cpu)
           local == bind.local \o [j \in 1..n |-> Wrapper(InterfaceName(k))]
           last == k = Len(bind.config)
       IN  bind' = IF ListensNowhere(d)
                   THEN [bind EXCEPT !.step = "failed", !.error = "ValueError"]
                   ELSE [bind EXCEPT !.sockets = @ + Bound(d),
                                     !.local = local,
                                     !.k = IF last THEN k ELSE k + 1,
                                     !.step = IF last THEN "done" ELSE "workers",
                                     !.processes = IF last THEN @ \o local ELSE @]
    /\ UNCHANGED bindrest

NextBind ==
    \/ InitServiceProcesses
    \/ ConfigInterface
    \/ InitTornadoWorkers

SpecBind == InitBind /\ [][NextBind]_vars

(***************************************************************************)
(* BaseCommand.__call__: the signal handlers, the start of the service     *)
(* processes, command() and the termination of the service processes.      *)
(***************************************************************************)
Signals == {"SIGUSR1", "SIGUSR2"}

\* No signal of either kind counted yet.
Count0 == [s \in Signals |-> 0]

\* The command object when __call__ begins: the class flags
\* service_processes_start and service_processes_in_thread, and the signals
\* for which the settings name a handler. received counts the signals
\* delivered to the master, called the calls of the user's handler in the
\* master, sent[i] the signals the master sent to worker i, got[i] the calls
\* of the handler in worker i; terminated holds the workers on which
\* terminate() was called.
NewSvc(start, in_thread, handlers) ==
    [start |-> start, in_thread |-> in_thread, handlers |-> handlers,
     received |-> Count0, called |-> Count0,
     sent |-> [i \in 1..nworkers |-> Count0],
     got |-> [i \in 1..nworkers |-> Count0],
     terminated |-> {}, command |-> "none"]

PcCall == [at |-> "call", i |-> 0, elapsed |-> 0, mode |-> "none", after |-> "none"]
PcTerminate(i) == [at |-> "terminate", i |-> i, elapsed |-> 0, mode |-> "none", after |-> "none"]
PcDone == [at |-> "done", i |-> 0, elapsed |-> 0, mode |-> "none", after |-> "none"]

\* __call__ begins with the handlers registered; any class flags, any
\* configured handlers, any readiness settings of the service processes.
InitSvc ==
    /\ InitCommon
    /\ variant = "BaseCommand"
    /\ max_restarts = -1
    /\ hist = Hist0
    /\ cfg \in [wait : BOOLEAN, timeout : {None, 1}]
    /\ pc = PcCall
    /\ \E start \in BOOLEAN, in_thread \in BOOLEAN, handlers \in SUBSET Signals :
          svc = NewSvc(start, in_thread, handlers)

\* "if self.service_processes_start: self.start_service_processes()"
Call ==
    /\ pc.at = "call"
    /\ pc' = IF svc.start THEN PcFor(1) ELSE PcCommand
    /\ UNCHANGED <<variant, nworkers, cfg, workers, max_restarts, outcome, log, hist, api,
                   proc, ppid, polled, cmdvars>>

\* self.workers: a Worker is appended when its start() has returned.
SelfWorkers ==
    IF ~svc.start \/ pc.at = "call" THEN {}
    ELSE IF pc.at \in {"for", "wait"} THEN {j \in W : j < pc.i}
    ELSE W

\* The workers the handler of sig sends the signal to when it runs in the
\* process with pid here: only the SIGUSR1 handler sends, only in the process
\* whose pid is self.pid, only with service processes in processes of their
\* own, and only to the Workers of self.workers that hold a handle.
HandlerSends(sig, here) ==
    IF sig = "SIGUSR1" /\ here = MasterPid /\ ~svc.in_thread
    THEN {j \in SelfWorkers : workers[j].process # None}
    ELSE {}

\* The master receives sig. Without a configured handler the signal is
\* ignored. With one, the user's handler is called and the signal is sent on
\* as HandlerSends says; os.kill on a worker that has ended and has been
\* reaped raises ProcessLookupError, which leaves the handler and __call__.
Signal(sig, reaped) ==
    /\ pc.at \in {"for", "wait", "command", "terminate"}
    /\ svc.received["SIGUSR1"] + svc.received["SIGUSR2"] < MaxSignals
    /\ IF sig \notin svc.handlers
       THEN /\ svc' = [svc EXCEPT !.received[sig] = @ + 1]
            /\ UNCHANGED <<pc, outcome>>
       ELSE LET targets == HandlerSends(sig, MasterPid)
                lost == {j \in targets : ~workers[j].alive /\ reaped}
                reach == {j \in targets : \A k \in lost : j < k}
            IN  /\ svc' = [svc EXCEPT !.received[sig] = @ + 1,
                                      !.called[sig] = @ + 1,
                                      !.sent = [j \in 1..nworkers |->
                                                  IF j \in reach
                                                  THEN [svc.sent[j] EXCEPT ![sig] = @ + 1]
                                                  ELSE svc.sent[j]]]
                /\ pc' = IF lost = {} THEN pc ELSE PcDone
                /\ outcome' = IF lost = {} THEN outcome ELSE "ProcessLookupError"
    /\ UNCHANGED <<variant, nworkers, cfg, workers, max_restarts, log, hist, api,
                   proc, ppid, polled, stops, ioloop, master, bind>>

\* Worker i, a process, receives a signal the master sent: the handler it
\* inherited runs there, with os.getpid() the worker's own pid.
ChildSignal(i, sig) ==
    /\ svc.start
    /\ svc.sent[i][sig] > svc.got[i][sig]
    /\ workers[i].alive
    /\ LET targets == HandlerSends(sig, pid(workers[i]))
       IN  svc' = [svc EXCEPT !.got[i][sig] = @ + 1,
                              !.sent = [j \in 1..nworkers |->
                                          IF j \in targets
                                          THEN [svc.sent[j] EXCEPT ![sig] = @ + 1]
                                          ELSE svc.sent[j]]]
    /\ UNCHANGED <<variant, nworkers, cfg, workers, max_restarts, pc, outcome, log, hist, api,
                   proc, ppid, polled, stops, ioloop, master, bind>>

\* The handle of service process i ends by itself: run() returned after the
\* parent test or SIGINT (status 0) or loop() raised (status 1).
ServiceEnds(i, code) ==
    /\ workers[i].alive
    /\ workers' = [workers EXCEPT ![i].alive = FALSE, ![i].exitcode = code]
    /\ UNCHANGED <<variant, nworkers, cfg, max_restarts, pc, outcome, log, hist, api,
                   proc, ppid, polled, cmdvars>>

\* Terminating every Worker, thread or process.
TerminatesAlways(in_thread) == TRUE

\* "if not self.service_processes_in_thread:" before the terminate loop.
TerminatesWorkers(in_thread) == ~in_thread

\* self.command() returns or raises. After a return the terminate loop runs
\* over self.workers if the service processes are processes.
Command(raises) ==
    /\ pc.at = "command"
    /\ svc' = [svc EXCEPT !.command = IF raises THEN "raised" ELSE "returned"]
    /\ outcome' = IF raises THEN "Exception" ELSE outcome
    /\ pc' = IF ~raises /\ TerminatesWorkers(svc.in_thread) /\ SelfWorkers # {}
             THEN PcTerminate(1) ELSE PcDone
    /\ UNCHANGED <<variant, nworkers, cfg, workers, max_restarts, log, hist, api,
                   proc, ppid, polled, stops, ioloop, master, bind>>

\* One iteration of "for worker in self.workers: worker.process.terminate()":
\* a handle that still runs ends by SIGTERM.
Terminate ==
    /\ pc.at = "terminate"
    /\ LET i == pc.i
       IN  /\ workers' = [workers EXCEPT ![i] =
                            IF workers[i].alive
                            THEN [@ EXCEPT !.alive = FALSE, !.exitcode = -15]
                            ELSE @]
           /\ svc' = [svc EXCEPT !.terminated = @ \cup {i}]
           /\ pc' = IF i < nworkers THEN PcTerminate(i + 1) ELSE PcDone
    /\ UNCHANGED <<variant, nworkers, cfg, max_restarts, outcome, log, hist, api,
                   proc, ppid, polled, stops, ioloop, master, bind>>

NextSvc ==
    \/ Call
    \/ StartServiceProcess
    \/ WaitPoll
    \/ \E i \in W : SetReady(i)
    \/ \E i \in W, code \in {0, 1} : ServiceEnds(i, code)
    \/ \E sig \in Signals, reaped \in BOOLEAN : Signal(sig, reaped)
    \/ \E i \in W, sig \in Signals : ChildSignal(i, sig)
    \/ \E raises \in BOOLEAN : Command(raises)
    \/ Terminate

SpecSvc == InitSvc /\ [][NextSvc]_vars

(***************************************************************************)
(* Restart budget.                                                         *)
(***************************************************************************)
\* The loop has ended with the budget-exhaustion failure raised to its caller.
RaisedTooMany == outcome = "CommandError" /\ pc.at = "end"

\* The loop has reported the budget-exhaustion failure at fatal severity.
LoggedTooMany == pc.at = "end" /\ Len(log) > 0 /\ log[Len(log)] = FatalRec

\* C1: with a finite budget N >= 0 and a single worker whose every exit has a
\* positive status, the loop restarts the worker exactly N times, and on seeing
\* exit N + 1 it raises the 'Too many child restarts' failure and does not start
\* the worker again.
C1_RestartsThenRaises ==
    (nworkers = 1 /\ hist.budget >= 0 /\ hist.onlypos) =>
        /\ hist.restarts <= hist.budget
        /\ hist.fails <= hist.budget + 1
        /\ hist.fails <= hist.budget => hist.restarts = hist.fails
        /\ hist.fails = hist.budget + 1 =>
              /\ RaisedTooMany
              /\ hist.restarts = hist.budget
              /\ ~is_alive(workers[1])
              /\ workers[1].calls = hist.budget + 1

\* C2: with max_restarts = -1 the budget stays -1, the budget-exhaustion
\* failure is neither raised nor logged, and every non-zero exit the loop sees
\* is followed by a restart.
C2_UnlimitedAlwaysRestarts ==
    hist.budget = -1 =>
        /\ max_restarts = -1
        /\ ~RaisedTooMany
        /\ ~LoggedTooMany
        /\ hist.restarts = hist.fails

\* The part of C2 about the budget alone: with max_restarts = -1 the budget
\* stays -1 and the budget-exhaustion failure is neither raised nor logged.
UnlimitedNeverExhausted ==
    hist.budget = -1 =>
        /\ max_restarts = -1
        /\ outcome \notin {"CommandError", "returned"}
        /\ ~LoggedTooMany

\* A handle of the loop's collection is in the readiness wait of a restart
\* whose decrement of the budget is still to come (start_workers).
DecrementPending == pc.at = "wait" /\ pc.after = "decrement"

\* C3: the budget is one counter for all workers: with a finite budget N the
\* restarts that follow non-zero exits, summed over all workers, never exceed
\* N, the counter is N less those restarts, and non-zero exit N + 1 ends the
\* whole loop without a restart, whichever worker it came from.
C3_SharedBudget ==
    hist.budget >= 0 =>
        /\ hist.restarts <= hist.budget
        /\ max_restarts = hist.budget - hist.restarts + (IF DecrementPending THEN 1 ELSE 0)
        /\ hist.fails <= hist.budget + 1
        /\ hist.fails > hist.restarts => (pc.at = "end" /\ outcome # "none")
        /\ hist.fails = hist.budget + 1 => \E i \in W : ~is_alive(workers[i])

\* Two workers, budget 1: worker 1 failed and was restarted, then the failure
\* of worker 2 exhausted the budget and ended the loop.
C3_Witness ==
    /\ nworkers = 2
    /\ hist.budget = 1
    /\ hist.restarts = 1
    /\ hist.fails = 2
    /\ workers[1].calls = 2
    /\ workers[2].calls = 1
    /\ ~is_alive(workers[2])
    /\ LoggedTooMany

(***************************************************************************)
(* Exit-status classification.                                             *)
(***************************************************************************)
\* The master examines, in this step, a worker that has started and is dead.
ExaminesDead ==
    /\ pc.at = "for"
    /\ outcome = "none"
    /\ has_started(workers[pc.i])
    /\ ~is_alive(workers[pc.i])
    /\ pc' # pc

\* The step has written a log record of this level whose message or argument
\* is text.
Logged(level, text) ==
    \E k \in 1..Len(log') :
        /\ log'[k].level = level
        /\ log'[k].worker = pc.i
        /\ (log'[k].msg = text \/ log'[k].arg = text)

\* The step has replaced the handle of the examined worker by a new, live one.
RestartedHere ==
    /\ is_alive(workers'[pc.i])
    /\ workers'[pc.i].calls = workers[pc.i].calls + 1
    /\ workers'[pc.i].process # workers[pc.i].process

\* What C4 asks of a step that examines a dead worker with status e.
ClassifiedAndRestarted(e) ==
    /\ RestartedHere
    /\ e = 0 => Logged("info", "has stopped")
    /\ e > 0 => Logged("error", ToString(e))
    /\ e < 0 => /\ Abs(e) \in DOMAIN SIGNALS_TO_NAMES_DICT
                /\ Logged("error", SIGNALS_TO_NAMES_DICT[Abs(e)])

\* C4: whenever the loop finds a started worker dead and the budget permits,
\* it restarts the worker whatever the status: 0 is logged as stopped at
\* informational severity, a positive status at error severity with the
\* numeric code, a negative one at error severity with the name of signal
\* abs(status).
C4_ClassifiesAndRestarts ==
    [][(ExaminesDead /\ max_restarts # 0) =>
            ClassifiedAndRestarted(workers[pc.i].exitcode)]_vars

(***************************************************************************)
(* The Worker API.                                                         *)
(***************************************************************************)
\* C5: start() on a Worker whose handle is alive raises ProcessError and
\* changes nothing: the factory is not called, no handle is created or
\* launched, the handle in place stays installed and alive.
C5_StartOnAliveRaises ==
    [][\A i \in W :
          (pc.at = "idle" /\ is_alive(workers[i]) /\ api'.op = "start" /\ api'.w = i
                /\ api' # api)
          => /\ api'.raised = "ProcessError"
             /\ workers' = workers
             /\ is_alive(workers'[i])
             /\ pc' = pc]_vars

\* start() was called on a live Worker that had been started and had become
\* ready, and raised.
C5_Witness ==
    /\ api.op = "start"
    /\ api.raised = "ProcessError"
    /\ is_alive(workers[api.w])
    /\ workers[api.w].ready
    /\ workers[api.w].calls = 1

\* C6: a Worker on which start() was never called has has_started false,
\* is_alive false and pid None, and a read of its exit status raises
\* ProcessError.
C6_NeverStarted ==
    \A i \in W :
        workers[i].calls = 0 =>
            /\ ~has_started(workers[i])
            /\ ~is_alive(workers[i])
            /\ pid(workers[i]) = None
            /\ (api.op = "exitcode" /\ api.w = i) => api.raised = "ProcessError"

\* C8: start() with the readiness wait and a given timeout, 0 included, ends
\* its wait when the timeout has elapsed: the wait is the timed one, never
\* longer than the timeout, and it is without limit only when the timeout is
\* None.
C8_GivenTimeoutEndsWait ==
    /\ (pc.at = "wait" /\ cfg.timeout # None) =>
            (pc.mode = "timed" /\ pc.elapsed <= cfg.timeout)
    /\ (pc.at = "wait" /\ pc.mode = "forever") => cfg.timeout = None

\* C9: when the first start of worker i fails with the startup timeout, the
\* failure leaves the startup sequence towards the caller, no worker after i
\* has been started and the loop has not completed a pass.
C9_TimeoutAbortsStartup ==
    outcome = "ProcessError" =>
        /\ pc.at = "end"
        /\ has_started(workers[pc.i])
        /\ workers[pc.i].calls = 1
        /\ \A j \in W : j > pc.i => (~has_started(workers[j]) /\ workers[j].calls = 0)
        /\ ~hist.steady

\* The start of a worker timed out with a worker after it in the collection.
C9_Witness ==
    /\ outcome = "ProcessError"
    /\ pc.at = "end"
    /\ pc.i < nworkers
    /\ has_started(workers[pc.i])
    /\ ~workers[pc.i].ready
    /\ ~has_started(workers[nworkers])

(***************************************************************************)
(* The readiness flag and the parent watchdog.                             *)
(***************************************************************************)
\* C7: within the life of a handle the readiness flag starts false and never
\* goes back: once set, every later read by the creator gives true; only the
\* worker side (the first loop() of a BaseProcess, run_ioloop_callback of a
\* TornadoProcess) writes it.
C7_ReadyMonotonic ==
    [][/\ proc.state = "created" => ~proc.ready
       /\ proc.ready => proc'.ready
       /\ proc'.ready # proc.ready => proc'.last \in {"loop", "run_ioloop_callback"}
       /\ (proc.ready /\ polled' # polled) => polled']_vars

\* The flag was set by the first work unit, the handle went on working, and
\* the creator has read the flag as true.
C7_Witness ==
    /\ proc.ready
    /\ polled
    /\ proc.loops >= 2

\* The worker runs in a process of its own.
ProcessStrategy == proc.kind \in {"process", "tornado"}

\* C10: on the first watchdog tick on which the live parent id is not the
\* recorded one, a process-strategy worker goes to STOPPING; from then on it
\* does no work and it ends with status 0.
C10_OrphanStops ==
    [][ProcessStrategy =>
          /\ (proc'.last = "tick" /\ proc' # proc /\ Orphaned(proc, ppid))
                => proc'.state = "stopping"
          /\ proc.state = "stopping" =>
                /\ proc'.loops = proc.loops
                /\ proc'.state \in {"stopping", "exited"}
                /\ proc'.state = "exited" => proc'.exitcode = 0]_vars

(***************************************************************************)
(* Shutdown of the runserver command.                                      *)
(***************************************************************************)
\* stop() has been called exactly once on every worker of the collection.
AllStoppedOnce == \A j \in W : stops[j].calls = 1

\* C11: when the master is interrupted inside the supervisor loop, stop() is
\* called exactly once on every worker in enumeration order, whether the
\* worker is alive, dead or never started, and only then does the command
\* return to its caller, normally: the interrupt is not propagated.
C11_InterruptStopsAll ==
    /\ (InLoop \/ pc.at = "end") => \A j \in W : stops[j].calls = 0
    /\ pc.at = "finally" =>
            \A j \in W : stops[j].calls = (IF j < pc.i THEN 1 ELSE 0)
    /\ (master.interrupted /\ pc.at \in {"main", "exited"}) =>
            /\ AllStoppedOnce
            /\ outcome = "returned"

\* The master was interrupted with worker 1 alive and worker 2 never started,
\* and the command has returned after stopping both.
C11_Witness ==
    /\ master.interrupted
    /\ pc.at = "main"
    /\ outcome = "returned"
    /\ nworkers = 2
    /\ stops[1] = [calls |-> 1, onalive |-> TRUE]
    /\ stops[2] = [calls |-> 1, onalive |-> FALSE]
    /\ ~has_started(workers[2])

\* C12: a SIGTERM delivered to the master inside the supervisor loop takes the
\* shutdown path of the interrupt: when the master has ended, stop() has been
\* called on every worker.
C12_SigtermStopsAll ==
    (master.sigterm /\ pc.at = "exited") => \A j \in W : stops[j].calls >= 1

\* The loop has seen a non-zero exit that it did not follow with a restart.
FailNotRestarted == hist.fails > hist.restarts

\* C13: when a non-zero exit is seen with the budget at exactly zero, the loop
\* fails with CommandError and does not restart the worker, stop() is then
\* called on every worker, and the failure reaches the caller of the command
\* and ends the master with code 1.
C13_ExhaustionFailsCommand ==
    (FailNotRestarted /\ max_restarts = 0) =>
        /\ ~InLoop
        /\ outcome = "CommandError"
        /\ pc.at = "end" => ~is_alive(workers[pc.i])
        /\ pc.at \in {"main", "exited"} => AllStoppedOnce
        /\ pc.at = "exited" => master.exit = 1

\* C14: after stop() has been called on an alive worker, the stop request is
\* with the worker's own execution context while the master still runs: it
\* is queued on the worker's IOLoop, whose next tick ends the worker with
\* status 0; the master kills nothing and a stop() on a worker that is not
\* alive changes nothing.
C14_StopReachesWorker ==
    \A i \in W :
        /\ (stops[i].onalive /\ is_alive(workers[i]) /\ pc.at # "exited") => ioloop[i] > 0
        /\ (stops[i].calls > 0 /\ ~stops[i].onalive) => ioloop[i] = 0

(***************************************************************************)
(* The exit code of the master.                                            *)
(***************************************************************************)
\* The exceptions that command() lets through to main().
CommandExceptions == {"CommandError", "ProcessError", "KeyError"}

\* C17: the master ends with code 0 when the command returned and with code 1
\* when it raised (the supervisor's CommandError, a startup ProcessError, any
\* other exception of the loop); with active children it ends by os._exit
\* with that same code, without them by sys.exit.
C17_ExitCodes ==
    (pc.at = "exited" /\ ~master.sigterm) =>
        /\ outcome \in CommandExceptions \cup {"returned"}
        /\ outcome = "returned" => master.exit = 0
        /\ outcome \in CommandExceptions => master.exit = 1
        /\ master.how = (IF master.children THEN "os._exit" ELSE "sys.exit")

\* The first start of a worker timed out: the command raised ProcessError and
\* the master ended with code 1 by os._exit, the worker being still alive.
C17_Witness ==
    /\ pc.at = "exited"
    /\ outcome = "ProcessError"
    /\ master.exit = 1
    /\ master.how = "os._exit"
    /\ master.children

(***************************************************************************)
(* The collection under supervision.                                       *)
(***************************************************************************)
\* The master examines, in this step, a worker whose handle was killed by a
\* signal.
ExaminesKilled == ExaminesDead /\ workers[pc.i].exitcode < 0

\* C15: while RunServer.start_processes runs, the collection keeps its size
\* and its workers their place and name (the index), and a worker found killed
\* while budget remains is alive again, with a new handle in the same place,
\* at the end of the step of the pass that examines it.
C15_ReplacedWithinPass ==
    [][variant = "RunServer" =>
          /\ nworkers' = nworkers
          /\ DOMAIN workers' = DOMAIN workers
          /\ (ExaminesKilled /\ max_restarts # 0) => RestartedHere]_vars

(***************************************************************************)
(* The Interface Binder.                                                   *)
(***************************************************************************)
\* The places of the collection that hold a wrapper of this name.
Named(name) == {j \in DOMAIN bind.processes : bind.processes[j].name = name}

\* C16: the collection built from a configuration holds, for each interface,
\* exactly process_count Workers named after it when process_count > 0 and
\* exactly cpu-count Workers when process_count <= 0, one Worker for each
\* background job and nothing else, every one of them unstarted.
C16_BinderCounts ==
    bind.step = "done" =>
        /\ \A k \in DOMAIN bind.interfaces :
              Cardinality(Named(InterfaceName(k))) =
                  (IF bind.interfaces[k].processes > 0 THEN bind.interfaces[k].processes
                   ELSE bind.cpu)
        /\ \A j \in 1..bind.jobs : Cardinality(Named(ServiceName(j))) = 1
        /\ \A j \in DOMAIN bind.processes :
              /\ \/ \E k \in DOMAIN bind.interfaces : bind.processes[j].name = InterfaceName(k)
                 \/ \E k \in 1..bind.jobs : bind.processes[j].name = ServiceName(k)
              /\ bind.processes[j].worker = NewWorker
              /\ ~has_started(bind.processes[j].worker)

\* Two interfaces with counts 2 and 1 and no background job have given
\* exactly 3 Workers: two named after the first, one after the second.
C16_Witness ==
    /\ bind.step = "done"
    /\ bind.jobs = 0
    /\ Len(bind.interfaces) = 2
    /\ bind.interfaces[1].processes = 2
    /\ bind.interfaces[2].processes = 1
    /\ Len(bind.processes) = 3
    /\ Named(InterfaceName(1)) = {1, 2}
    /\ Named(InterfaceName(2)) = {3}

\* C18: when the descriptor of an interface that listens nowhere is refused,
\* no Worker object exists yet, for an interface or for a background job, and
\* no socket has been bound.
C18_ErrorBeforeAnyWorker ==
    bind.error # "none" =>
        /\ bind.processes = <<>>
        /\ bind.local = <<>>
        /\ bind.sockets = 0

(***************************************************************************)
(* Stop requests seen from inside the worker.                              *)
(***************************************************************************)
\* The handle has ended because a work unit raised.
EndedByError == proc.state = "exited" /\ proc.last = "loop"

\* C19: a thread-strategy worker compares no parent pid and stops on request
\* only: without a stop request it stays in its run loop, whatever becomes of
\* the parent, and after a stop request it leaves the loop, starting no work
\* unit beyond the one in progress.
C19_ThreadStopsOnRequestOnly ==
    proc.kind = "thread" =>
        /\ proc.parent_pid = MasterPid
        /\ proc.stopreq = None => (proc.state \in {"created", "running"} \/ EndedByError)
        /\ proc.stopreq # None => proc.loops <= proc.stopreq + 1

\* The SIGINT request is still in force: _parent_pid is 0, or stop is queued
\* or has run.
SigintInForce ==
    IF proc.kind = "process" THEN proc.parent_pid = 0
    ELSE \/ "stop" \in {proc.queue[k] : k \in 1..Len(proc.queue)}
         \/ proc.state \in {"stopping", "exited"}

\* C20: once a process-strategy worker has received SIGINT while running, the
\* request stays in force, the worker starts at most one more work unit, and
\* if no work unit raises it goes by STOPPING to its end with status 0.
C20_SigintStops ==
    (ProcessStrategy /\ proc.sigint # None) =>
        /\ SigintInForce
        /\ proc.loops <= proc.sigint + 1
        /\ (proc.state = "exited" /\ ~EndedByError) => proc.exitcode = 0

(***************************************************************************)
(* Restarts and the readiness wait.                                        *)
(***************************************************************************)
\* The master examines, in this step, a worker whose handle ended with
\* status 0.
ExaminesClean == ExaminesDead /\ workers[pc.i].exitcode = 0

\* C22: a restart after a clean exit is made whatever the budget, zero
\* included, and leaves the budget as it was: the zero test and the decrement
\* belong to the restarts that follow a non-zero exit.
C22_CleanRestartFree ==
    [][ExaminesClean =>
            /\ RestartedHere
            /\ max_restarts' = max_restarts
            /\ outcome' = "none"]_vars

\* C23: a restart made by the supervisor loop does not wait for the readiness
\* flag and cannot raise the startup timeout: the loop is in a readiness wait
\* only for the first handle of a Worker.
C23_RestartNeverWaits ==
    pc.at = "wait" => workers[pc.i].calls = 1

\* The master is in a readiness wait without limit on a handle that has ended
\* with its flag unset.
WaitsOnDead ==
    /\ pc.at = "wait"
    /\ pc.mode = "forever"
    /\ ~workers[pc.i].alive
    /\ ~workers[pc.i].ready

\* C24: a readiness wait in progress is left only with the flag set or, in the
\* timed wait, with the timeout expired; the end of the handle does not end
\* it. A wait without limit on a handle that ended before setting its flag
\* goes on for ever: the master stays where it is and no Worker is started,
\* examined or restarted.
C24_WaitNotEndedByExit ==
    [][/\ (pc.at = "wait" /\ pc'.at # "wait") =>
                \/ workers[pc.i].ready
                \/ (pc.mode = "timed" /\ pc.elapsed >= cfg.timeout)
       /\ WaitsOnDead =>
                /\ pc' = pc
                /\ outcome' = outcome
                /\ max_restarts' = max_restarts
                /\ \A j \in W : workers'[j].calls = workers[j].calls]_vars

\* The first worker of two ended before it set its flag, the master waits for
\* it without limit, and the second worker has not been started.
C24_Witness ==
    /\ WaitsOnDead
    /\ nworkers = 2
    /\ pc.i = 1
    /\ ~has_started(workers[2])
    /\ outcome = "none"

(***************************************************************************)
(* The life of a Worker and of its handles.                                *)
(***************************************************************************)
\* C25: a Worker goes from not started to started and never back; a live
\* Worker has started; a start that launches calls the factory once and
\* installs a handle the Worker never held before, live; and a handle that
\* has ended is never live again, the Worker lives again only through a new
\* handle.
C25_HandleLifecycle ==
    [][\A i \in W :
          LET w == workers[i]
              n == workers'[i]
          IN  /\ has_started(w) => has_started(n)
              /\ is_alive(n) => has_started(n)
              /\ n.calls \in {w.calls, w.calls + 1}
              /\ (n.calls = w.calls + 1) <=> (n.process # w.process)
              /\ (n.calls = w.calls + 1) =>
                      /\ n.process \notin (1..w.calls) \cup {None}
                      /\ n.alive
                      /\ ~is_alive(w)
              /\ (n.process = w.process /\ is_alive(n)) => is_alive(w)]_vars

\* A Worker whose first handle ended was started again: the factory was
\* called twice and the second handle runs.
C25_Witness ==
    \E i \in W :
        /\ workers[i].calls = 2
        /\ workers[i].process = 2
        /\ is_alive(workers[i])
        /\ api.op = "start"
        /\ api.raised = "none"

(***************************************************************************)
(* Signal names.                                                           *)
(***************************************************************************)
\* C29: whatever signal ended a worker, the loop finds the name of the signal
\* and goes on to the restart under the budget: the loop never ends by an
\* error other than the exhausted budget.
C29_EverySignalNamed ==
    /\ outcome # "KeyError"
    /\ \A i \in W :
          (has_started(workers[i]) /\ ~workers[i].alive /\ workers[i].exitcode < 0)
              => Abs(workers[i].exitcode) \in DOMAIN SIGNALS_TO_NAMES_DICT

(***************************************************************************)
(* The worker's own stop, readiness and the lost parent.                   *)
(***************************************************************************)
\* C26: an HTTP worker that stops first stops its HTTP server and then its
\* event loop: once the stop logic has run, and when the loop is stopped, the
\* server listens no more.
C26_ServerStoppedBeforeLoop ==
    (proc.kind = "tornado" /\ proc.state \in {"stopping", "exited"})
        => ~proc.listening

\* C27: the readiness flag is true only after the initialization: for a
\* service process after a first loop() that returned (a first loop() that
\* raised leaves it false for good), for an HTTP worker after
\* initialize_child ran, the sockets were added and the event loop started.
C27_ReadyAfterInit ==
    /\ (proc.kind \in {"process", "thread"} /\ proc.ready)
          => (proc.loops >= 1 /\ ~proc.first)
    /\ (proc.kind \in {"process", "thread"} /\ proc.state = "exited"
            /\ proc.last = "loop" /\ proc.loops = 0)
          => ~proc.ready
    /\ (proc.kind = "tornado" /\ proc.ready)
          => (proc.initialized /\ proc.added /\ proc.started)

\* An HTTP worker whose loop has just run run_ioloop_callback.
C27_Witness ==
    /\ proc.kind = "tornado"
    /\ proc.ready
    /\ proc.last = "run_ioloop_callback"

\* C30: a worker in a process of its own does not outlive its master: once
\* the master has ended, at whatever point of the worker's life, run() not
\* yet entered and flag not yet set included, the worker finds the parent
\* changed and ends.
C30_OrphanTerminates ==
    (ProcessStrategy /\ ppid = InitPid) ~> (proc.state = "exited")

\* A service process whose master ended before the first loop() ended
\* without having done any work and without having been ready.
C30_Witness ==
    /\ ProcessStrategy
    /\ ppid = InitPid
    /\ proc.state = "exited"
    /\ proc.exitcode = 0
    /\ proc.loops = 0
    /\ ~proc.ready

(***************************************************************************)
(* Signals and service processes of a command.                             *)
(***************************************************************************)
\* The master handles, in this step, a delivery of sig for which a handler
\* is configured.
Handles(sig) ==
    /\ sig \in svc.handlers
    /\ svc'.received[sig] = svc.received[sig] + 1

\* C21: when the master receives SIGUSR1 or SIGUSR2 with a handler
\* configured, the user's handler is called and the same signal is sent once
\* to every started worker that is a process, and to no worker that is a
\* thread; a worker that handles the signal it was sent sends nothing on.
C21_SignalForwarded ==
    [][\A sig \in Signals :
          /\ Handles(sig) =>
                /\ svc'.called[sig] = svc.called[sig] + 1
                /\ \A i \in W :
                      svc'.sent[i][sig] =
                          svc.sent[i][sig]
                            + (IF has_started(workers[i]) /\ ~svc.in_thread THEN 1 ELSE 0)
          /\ \A i \in W :
                (svc'.got[i][sig] = svc.got[i][sig] + 1) => svc'.sent = svc.sent]_vars

====
